---- MODULE Spec2Model ----
\* A model of the goblockchain ledger engine (package block): blocks and their
\* hashes, the proof-of-work predicate and search, chain validation, transaction
\* admission, mining and consensus resolution.
EXTENDS Integers, Sequences, FiniteSets, TLC

\* ------------------------------------------------------------------ bounds
\* A digest is rendered by %x as a fixed-width string of digits.  The model keeps
\* the rendering and the prefix comparison of the code and scales the digest
\* down: DigestLen digits over an alphabet of HexRadix characters.
HexRadix == 2
DigestLen == 4
\* Difficulties tried by the stand-alone nonce search: 0..MaxDifficulty.
MaxDifficulty == 4
\* Longest input chain handed to ValidChain on its own.
MaxVCLen == 3
\* Mining is started while the local chain has fewer than MaxChain blocks.
MaxChain == 2
\* Submissions are taken while the pool holds fewer than MaxPool transactions.
MaxPool == 2
\* Amounts submitted: 1..MaxValue.
MaxValue == 1
\* time.Now().UnixNano() yields a timestamp in 1..MaxTime.
MaxTime == 1
\* The node's neighbour list has NumNeighbours entries.
NumNeighbours == 2
\* Longest chain a neighbour answers with.
MaxPeerLen == 3
\* Significant binary digits of an amount (float32 has 24).
MantissaBits == 3
\* CreateBlock is called directly while the chain has fewer than MaxDirect blocks.
MaxDirect == 3
\* Mining called between submissions is started below MaxLedger blocks.
MaxLedger == 3
\* Mining interleaved with submissions alone is started below MaxSpend blocks.
MaxSpend == 4
\* Mining interleaved with consensus alone is started below MaxGrowth blocks.
MaxGrowth == 3

\* ------------------------------------------------------- program constants
MINING_DIFFICULTY == 3
MINING_SENDER == "THE BLOCKCHAIN"
MINING_REWARD == 1

\* ------------------------------------------------------------------- data
Addresses == {"A", "B"}

RECURSIVE Pow(_, _)
Pow(b, e) == IF e = 0 THEN 1 ELSE b * Pow(b, e - 1)

DigestSpace == Pow(HexRadix, DigestLen)
Digests == 0 .. (DigestSpace - 1)

Transaction(sender, recipient, value) ==
    [sender |-> sender, recipient |-> recipient, value |-> value]

Block(nonce, previousHash, timestamp, transactions) ==
    [nonce |-> nonce, previousHash |-> previousHash,
     timestamp |-> timestamp, transactions |-> transactions]

\* ---------------------------------------------------------------- hashing
\* The canonical serialization (json.Marshal) followed by sha256 is a
\* deterministic function of the four fields of a block, the order of its
\* transactions included.  The model mixes the same fields into a digest of
\* DigestLen digits.  For fixed other fields the digest is a bijection of the
\* nonce and a bijection of previousHash (their multipliers, 7 + 6 * previousHash
\* and 5 + 6 * nonce, are units modulo a power of 2 or of 3), so that two blocks
\* differing in previousHash alone hash apart and the nonce search meets every
\* digest.
AddrCode(a) == CASE a = "A" -> 1 [] a = "B" -> 2 [] OTHER -> 0

SerialTx(t) == 1 + AddrCode(t.sender) + 3 * AddrCode(t.recipient) + 9 * t.value

RECURSIVE SerialTxs(_)
SerialTxs(txs) ==
    IF txs = <<>> THEN 1
    ELSE (5 * SerialTxs(SubSeq(txs, 1, Len(txs) - 1)) + SerialTx(txs[Len(txs)]))
             % DigestSpace

Hash(b) ==
    LET body == SerialTxs(b.transactions)
    IN  (7 * b.nonce + 5 * b.previousHash + 6 * b.nonce * b.previousHash
           + 11 * b.timestamp * (1 + body) + 13 * body + 3) % DigestSpace

\* fmt.Sprintf("%x", digest): the digits of the digest, most significant first,
\* always DigestLen of them.
HexString(h) ==
    [i \in 1 .. DigestLen |-> (h \div Pow(HexRadix, DigestLen - i)) % HexRadix]

\* strings.Repeat("0", n)
Repeat0(n) == [i \in 1 .. n |-> 0]

\* ---------------------------------------------------------- proof of work
\* ValidProof compares the first 3 characters of the rendered digest of the
\* trial block (timestamp 0) with a string of `difficulty` zeros.
ValidProof(nonce, previousHash, transactions, difficulty) ==
    LET zeros == Repeat0(difficulty)
        guessBlock == Block(nonce, previousHash, 0, transactions)
        guessHashStr == HexString(Hash(guessBlock))
    IN  SubSeq(guessHashStr, 1, 3) = zeros

\* The loop of ProofOfWork: nonce := 0; for !ValidProof(...) { nonce += 1 }.
RECURSIVE NonceSearch(_, _, _)
NonceSearch(nonce, previousHash, transactions) ==
    IF ValidProof(nonce, previousHash, transactions, MINING_DIFFICULTY)
    THEN nonce
    ELSE NonceSearch(nonce + 1, previousHash, transactions)

\* ------------------------------------------------------- chain validation
\* ValidChain reads chain[0] first: an empty chain is an index out of range.
ValidChainPanics(chain) == Len(chain) = 0

\* The loop of ValidChain from currentIndex (1-based here) on.
RECURSIVE ValidChainFrom(_, _)
ValidChainFrom(chain, currentIndex) ==
    IF currentIndex > Len(chain) THEN TRUE
    ELSE LET b == chain[currentIndex]
             preBlock == chain[currentIndex - 1]
         IN  IF b.previousHash # Hash(preBlock) THEN FALSE
             ELSE IF ~ValidProof(b.nonce, b.previousHash, b.transactions,
                                 MINING_DIFFICULTY) THEN FALSE
             ELSE ValidChainFrom(chain, currentIndex + 1)

ValidChain(chain) == ValidChainFrom(chain, 2)

\* ------------------------------------------------------------------ state
VARIABLES
    chain,  \* bc.Chain
    pool,   \* bc.TransactionPool
    mux,    \* bc.mux is held
    m,      \* the Mining call: its position and its locals
    rc,     \* the ResolveConflicts call: its position and its locals
    last,   \* the call that has just returned: its arguments, what it saw, its result
    pw,     \* the stand-alone nonce search: its inputs, its nonce, its position
    vc      \* a call of ValidChain on its own: the input chain and the outcome

nodeVars == <<chain, pool, mux, m, rc, last>>
vars == <<chain, pool, mux, m, rc, last, pw, vc>>

PwIdle == [pc |-> "idle", previousHash |-> 0, transactions |-> <<>>,
           difficulty |-> 0, nonce |-> 0]
VcIdle == [chain |-> <<>>, base |-> <<>>, ret |-> "none"]

ZeroBlock == Block(0, 0, 0, <<>>)
Timestamps == 1 .. MaxTime
BlockChainAddress == "A"

\* Mining's locals; alias tells that the pool still lives in the array that the
\* transactions of the block under construction live in; pool0 and chain0 are
\* the pool and the chain the call found.
MIdle == [pc |-> "idle", nonce |-> 0, previousHash |-> 0, block |-> ZeroBlock,
          alias |-> FALSE, pool0 |-> <<>>, chain0 |-> <<>>]
RcIdle == [pc |-> "idle", maxLength |-> 0, longestChain |-> <<>>, idx |-> 0,
           seen |-> <<>>, chain0 |-> <<>>, replay |-> <<>>, again |-> FALSE,
           first |-> "none"]
NoCall == [op |-> "none"]

\* NewBlockchain: an empty pool and the genesis block, CreateBlock(0, hash of the
\* zero block), stamped with the time of construction.
NewBlockchain(timestamp) ==
    /\ chain = <<Block(0, Hash(ZeroBlock), timestamp, <<>>)>>
    /\ pool = <<>>
    /\ mux = FALSE
    /\ m = MIdle
    /\ rc = RcIdle
    /\ last = NoCall

\* LastBlock, and a variant that returns the first block, which C17 tells apart
\* from the code's.
LastBlock_First(c) == c[1]

LastBlock(c) == c[Len(c)]

\* ------------------------------------------------------------ admission
\* A public key is named by its owner; a signature records the key that made it
\* and the transaction it was made over.  ecdsa.Verify accepts a signature
\* exactly when it was made with the key's pair over the same digest.
Keys == Addresses
Sign(key, t) == [signer |-> key, msg |-> t]
NoKey == "nil"
NoSignature == [signer |-> "nil", msg |-> Transaction("", "", 0)]

VerifyTransactionSignature(senderPublicKey, s, t) ==
    s.signer = senderPublicKey /\ s.msg = t

\* float32 arithmetic on the amounts: a result is rounded to the nearest value
\* with MantissaBits significant binary digits, a tie to the even one.  Ulp is
\* the spacing of such values at magnitude n.
RECURSIVE Ulp(_, _)
Ulp(n, q) == IF n < q * Pow(2, MantissaBits) THEN q ELSE Ulp(n, 2 * q)

Float32(x) ==
    LET n == IF x < 0 THEN 0 - x ELSE x
        q == Ulp(n, 1)
        r == n % q
        lo == n - r
        rounded == IF 2 * r > q \/ (2 * r = q /\ (lo \div q) % 2 = 1)
                   THEN lo + q ELSE lo
    IN  IF x < 0 THEN 0 - rounded ELSE rounded

\* CalculateTotalAmount: every transaction of every block, in order, added to
\* or subtracted from the running float32 totalAmount.
RECURSIVE SumTransactions(_, _, _)
SumTransactions(txs, blockchainAddress, totalAmount) ==
    IF txs = <<>> THEN totalAmount
    ELSE LET t == Head(txs)
             value == t.value
             credited == IF blockchainAddress = t.recipient
                         THEN Float32(totalAmount + value) ELSE totalAmount
             debited == IF blockchainAddress = t.sender
                        THEN Float32(credited - value) ELSE credited
         IN  SumTransactions(Tail(txs), blockchainAddress, debited)

RECURSIVE SumBlocks(_, _, _)
SumBlocks(blocks, blockchainAddress, totalAmount) ==
    IF blocks = <<>> THEN totalAmount
    ELSE SumBlocks(Tail(blocks), blockchainAddress,
                   SumTransactions(Head(blocks).transactions, blockchainAddress,
                                   totalAmount))

CalculateTotalAmount(bcChain, blockchainAddress) ==
    SumBlocks(bcChain, blockchainAddress, 0)

\* A variant of AddTransaction without the balance test, which C10 tells apart
\* from the code's.
AddTransaction_NoBalance(bcPool, bcChain, sender, recipient, value, senderPublicKey, s) ==
    LET t == Transaction(sender, recipient, value)
    IN  IF sender = MINING_SENDER \/ VerifyTransactionSignature(senderPublicKey, s, t)
        THEN [ok |-> TRUE, pool |-> Append(bcPool, t), log |-> ""]
        ELSE [ok |-> FALSE, pool |-> bcPool, log |-> "ERROR: Verify Transaction"]

\* AddTransaction on a ledger with pool bcPool and chain bcChain: the value it
\* returns, the pool it leaves and the line it logs.
AddTransaction(bcPool, bcChain, sender, recipient, value, senderPublicKey, s) ==
    LET t == Transaction(sender, recipient, value)
    IN  IF sender = MINING_SENDER
        THEN [ok |-> TRUE, pool |-> Append(bcPool, t), log |-> ""]
        ELSE IF VerifyTransactionSignature(senderPublicKey, s, t)
             THEN IF CalculateTotalAmount(bcChain, sender) < value
                  THEN [ok |-> FALSE, pool |-> bcPool,
                        log |-> "ERROR: Insufficient balance"]
                  ELSE [ok |-> TRUE, pool |-> Append(bcPool, t), log |-> ""]
             ELSE [ok |-> FALSE, pool |-> bcPool,
                   log |-> "ERROR: Verify Transaction"]

\* CopyTransactionPool: a new list of new transactions with the same fields.
CopyTransactionPool(bcPool) ==
    [i \in 1 .. Len(bcPool) |->
        Transaction(bcPool[i].sender, bcPool[i].recipient, bcPool[i].value)]

\* ProofOfWork: the snapshot of the pool, the hash of the last block, the search.
ProofOfWork(bcPool, bcChain) ==
    LET transactions == CopyTransactionPool(bcPool)
        previousHash == Hash(LastBlock(bcChain))
    IN  NonceSearch(0, previousHash, transactions)

\* CreateTransaction: AddTransaction with the arguments of the request as they
\* came; when it succeeds the request is passed on to the neighbours, which
\* changes nothing on this node.
CreateTransaction(bcPool, bcChain, sender, recipient, value, senderPublicKey, s) ==
    LET isTransacted == AddTransaction(bcPool, bcChain, sender, recipient, value,
                                       senderPublicKey, s)
    IN  isTransacted

\* A submission from outside (the transport's handler calls CreateTransaction,
\* or AddTransaction for a transaction a neighbour passed on).  It takes no lock.
Submit(sender, recipient, value, senderPublicKey, s) ==
    /\ Len(pool) < MaxPool
    /\ LET r == CreateTransaction(pool, chain, sender, recipient, value,
                                  senderPublicKey, s)
           t == Transaction(sender, recipient, value)
           slot == Len(pool) + 1
           \* append writes slot of the pool's array: a slot of the block's list
           hit == r.ok /\ m.alias /\ slot <= Len(m.block.transactions)
           written == [m.block EXCEPT !.transactions[slot] = t]
       IN  /\ pool' = r.pool
           /\ last' = [op |-> "AddTransaction", t |-> t,
                       verified |-> VerifyTransactionSignature(senderPublicKey, s, t),
                       ok |-> r.ok, log |-> r.log, pool0 |-> pool, chain0 |-> chain]
           /\ IF hit
              THEN /\ m' = [m EXCEPT !.block = written]
                   /\ chain' = IF m.pc = "clear"
                               THEN [chain EXCEPT ![Len(chain)] = written]
                               ELSE chain
              ELSE /\ chain' = chain
                   \* past the block's list: in place if the array has room, or
                   \* into a new array, which ends the sharing
                   /\ IF r.ok /\ m.alias
                      THEN m' \in {m, [m EXCEPT !.alias = FALSE]}
                      ELSE m' = m
    /\ UNCHANGED <<mux, rc, pw, vc>>

\* ClearTransactionPool (the transport's DELETE handler): pool[:0], the same
\* array with length 0.  No lock.
ClearTransactionPool ==
    /\ pool' = SubSeq(pool, 1, 0)
    /\ last' = NoCall
    /\ UNCHANGED <<chain, mux, m, rc, pw, vc>>

\* CreateBlock with a pool and a chain: the block it makes, the chain and the
\* pool it leaves.  The variant puts the pool into the block last-in first-out,
\* which C13 tells apart from the code's.
RECURSIVE Reverse(_)
Reverse(q) == IF q = <<>> THEN <<>> ELSE Append(Reverse(Tail(q)), Head(q))

CreateBlock_Lifo(bcPool, bcChain, nonce, previousHash, timestamp) ==
    LET block == Block(nonce, previousHash, timestamp, Reverse(bcPool))
    IN  [block |-> block, chain |-> Append(bcChain, block), pool |-> <<>>]

CreateBlock(bcPool, bcChain, nonce, previousHash, timestamp) ==
    LET block == Block(nonce, previousHash, timestamp, bcPool)
    IN  [block |-> block, chain |-> Append(bcChain, block), pool |-> <<>>]

\* A direct call of CreateBlock, as the first program (src/block.go) makes it.
CreateBlockCall(nonce, previousHash, timestamp) ==
    /\ LET r == CreateBlock(pool, chain, nonce, previousHash, timestamp)
       IN  chain' = r.chain /\ pool' = r.pool
    /\ last' = [op |-> "CreateBlock", nonce |-> nonce,
                previousHash |-> previousHash, pool0 |-> pool, chain0 |-> chain]
    /\ UNCHANGED <<mux, m, rc, pw, vc>>

\* A balance query (the transport's handler calls CalculateTotalAmount).
AmountCall(blockchainAddress) ==
    /\ last' = [op |-> "CalculateTotalAmount",
                blockchainAddress |-> blockchainAddress,
                ret |-> CalculateTotalAmount(chain, blockchainAddress),
                pool0 |-> pool, chain0 |-> chain]
    /\ UNCHANGED <<chain, pool, mux, m, rc, pw, vc>>

\* ---------------------------------------------------------------- mining
\* Mining, one shared-memory access (or lock operation) a step.
MLock ==
    /\ m.pc = "idle" /\ ~mux
    /\ mux' = TRUE
    /\ m' = [m EXCEPT !.pc = "reward", !.pool0 = pool, !.chain0 = chain]
    /\ last' = NoCall
    /\ UNCHANGED <<chain, pool, rc, pw, vc>>

\* bc.AddTransaction(MINING_SENDER, bc.BlockChainAddress, MINING_REWARD, nil, nil)
MReward ==
    /\ m.pc = "reward"
    /\ pool' = AddTransaction(pool, chain, MINING_SENDER, BlockChainAddress,
                              MINING_REWARD, NoKey, NoSignature).pool
    /\ m' = [m EXCEPT !.pc = "pow"]
    /\ last' = NoCall
    /\ UNCHANGED <<chain, mux, rc, pw, vc>>

\* nonce := bc.ProofOfWork()
MProofOfWork ==
    /\ m.pc = "pow"
    /\ m' = [m EXCEPT !.pc = "create", !.nonce = ProofOfWork(pool, chain)]
    /\ last' = NoCall
    /\ UNCHANGED <<chain, pool, mux, rc, pw, vc>>

\* previousHash := bc.LastBlock().Hash(), then the first statement of
\* CreateBlock: newBlock(nonce, previousHash, bc.TransactionPool).
MNewBlock(timestamp) ==
    /\ m.pc = "create"
    /\ LET previousHash == Hash(LastBlock(chain))
       IN  m' = [m EXCEPT !.pc = "append", !.previousHash = previousHash,
                          !.block = Block(m.nonce, previousHash, timestamp, pool),
                          !.alias = TRUE]
    /\ last' = NoCall
    /\ UNCHANGED <<chain, pool, mux, rc, pw, vc>>

\* bc.Chain = append(bc.Chain, block)
MAppend ==
    /\ m.pc = "append"
    /\ chain' = Append(chain, m.block)
    /\ m' = [m EXCEPT !.pc = "clear"]
    /\ last' = NoCall
    /\ UNCHANGED <<pool, mux, rc, pw, vc>>

\* bc.TransactionPool = []*Transaction{}
MClear ==
    /\ m.pc = "clear"
    /\ pool' = <<>>
    /\ m' = [m EXCEPT !.pc = "unlock", !.alias = FALSE]
    /\ last' = NoCall
    /\ UNCHANGED <<chain, mux, rc, pw, vc>>

\* The neighbours are told (their business), the lock is released, true returned.
MUnlock ==
    /\ m.pc = "unlock"
    /\ mux' = FALSE
    /\ m' = MIdle
    /\ last' = [op |-> "Mining", ok |-> TRUE, pool0 |-> m.pool0,
                chain0 |-> m.chain0]
    /\ UNCHANGED <<chain, pool, rc, pw, vc>>

\* ------------------------------------------------------------- consensus
\* What the GET of a neighbour's chain comes to:
\*   "error"      the request fails: http.Get returns a nil response;
\*   "status"     a response whose status is not 200;
\*   "garbage"    status 200 and a body that is not JSON: bcResp.Chain stays nil;
\*   "shorthash"  status 200 and a block whose previousHash decodes to fewer
\*                bytes than ph[:32] can slice;
\*   "ok"         status 200 and a chain.
Response(kind, c) == [kind |-> kind, chain |-> c]

\* resp.StatusCode on a nil response, and ph[:32] on a short slice, panic.
FetchPanics(resp) == resp.kind \in {"error", "shorthash"}

\* The body of the loop for one neighbour that answered with status 200.
\* Variants of the comparison at lines 390-393, without the validity test and
\* with a non-strict length test, which C7 and C8 tell apart from the code's.
Consider_Unchecked(r, c) ==
    IF Len(c) > r.maxLength
    THEN [r EXCEPT !.maxLength = Len(c), !.longestChain = c]
    ELSE r

Consider_AtLeast(r, c) ==
    IF Len(c) >= r.maxLength /\ ValidChain(c)
    THEN [r EXCEPT !.maxLength = Len(c), !.longestChain = c]
    ELSE r

Consider(r, c) ==
    IF Len(c) > r.maxLength /\ ValidChain(c)
    THEN [r EXCEPT !.maxLength = Len(c), !.longestChain = c]
    ELSE r

\* longestChain = nil; maxLength := len(bc.Chain).  No lock is taken.
RCBegin ==
    /\ rc.pc = "idle"
    /\ rc' = [pc |-> "scan", maxLength |-> Len(chain), longestChain |-> <<>>,
              idx |-> 1, seen |-> <<>>, chain0 |-> chain,
              replay |-> <<>>, again |-> FALSE, first |-> "none"]
    /\ last' = NoCall
    /\ UNCHANGED <<chain, pool, mux, m, pw, vc>>

\* The same call made again right after a call that returned, the neighbours
\* answering as they did to that call (replay); first is what that call returned.
RCBeginAgain ==
    /\ rc.pc = "idle"
    /\ last.op = "ResolveConflicts" /\ last.ret # "panic"
    /\ rc' = [pc |-> "scan", maxLength |-> Len(chain), longestChain |-> <<>>,
              idx |-> 1, seen |-> <<>>, chain0 |-> chain,
              replay |-> last.seen, again |-> TRUE, first |-> last.ret]
    /\ last' = NoCall
    /\ UNCHANGED <<chain, pool, mux, m, pw, vc>>

\* One neighbour of the list: the GET and what the loop body does with it.
RCFetch(resp) ==
    /\ rc.pc = "scan" /\ rc.idx <= NumNeighbours
    /\ rc.again => resp = rc.replay[rc.idx]
    /\ IF FetchPanics(resp)
       THEN /\ rc' = RcIdle
            /\ last' = [op |-> "ResolveConflicts", ret |-> "panic",
                        seen |-> Append(rc.seen, resp), chain0 |-> rc.chain0,
                        chainPre |-> chain, again |-> rc.again,
                        first |-> rc.first]
       ELSE /\ rc' = [(IF resp.kind = "ok" THEN Consider(rc, resp.chain) ELSE rc)
                        EXCEPT !.idx = @ + 1, !.seen = Append(@, resp)]
            /\ last' = NoCall
    /\ UNCHANGED <<chain, pool, mux, m, pw, vc>>

\* A variant of the end of the pass that also empties the pool, which C18 tells
\* apart from the code's.
RCEnd_ClearsPool ==
    /\ rc.pc = "scan" /\ rc.idx > NumNeighbours
    /\ chain' = IF rc.longestChain # <<>> THEN rc.longestChain ELSE chain
    /\ pool' = <<>>
    /\ last' = [op |-> "ResolveConflicts",
                ret |-> IF rc.longestChain # <<>> THEN "true" ELSE "false",
                seen |-> rc.seen, chain0 |-> rc.chain0, chainPre |-> chain,
                again |-> rc.again, first |-> rc.first]
    /\ rc' = RcIdle
    /\ UNCHANGED <<mux, m, pw, vc>>

\* After the loop: bc.Chain = longestChain and true, or false.
RCEnd ==
    /\ rc.pc = "scan" /\ rc.idx > NumNeighbours
    /\ chain' = IF rc.longestChain # <<>> THEN rc.longestChain ELSE chain
    /\ last' = [op |-> "ResolveConflicts",
                ret |-> IF rc.longestChain # <<>> THEN "true" ELSE "false",
                seen |-> rc.seen, chain0 |-> rc.chain0, chainPre |-> chain,
                again |-> rc.again, first |-> rc.first]
    /\ rc' = RcIdle
    \* a block already appended goes with the chain it was appended to
    /\ m' = IF rc.longestChain # <<>> /\ m.pc = "clear"
            THEN [m EXCEPT !.alias = FALSE] ELSE m
    /\ UNCHANGED <<pool, mux, pw, vc>>

\* The claim's own notion of a valid chain: every block after the first links
\* to the hash of its predecessor and satisfies the proof-of-work predicate.
LinkedAndProved(c) ==
    \A i \in 2 .. Len(c) :
        /\ c[i].previousHash = Hash(c[i - 1])
        /\ ValidProof(c[i].nonce, c[i].previousHash, c[i].transactions,
                      MINING_DIFFICULTY)

\* ------------------------------------------------------- the environment
\* Chains a neighbour may answer with: from a genesis block, each further block
\* mined on its predecessor over one of PeerTxLists, or forged: mined on a wrong
\* previousHash ("badlink"), or linked with a nonce that fails the predicate
\* ("badproof").
PeerTxLists ==
    { <<Transaction(MINING_SENDER, "A", MINING_REWARD)>>,
      <<Transaction(MINING_SENDER, "B", MINING_REWARD)>> }

Mined(c, transactions) ==
    Append(c, Block(NonceSearch(0, Hash(LastBlock(c)), transactions),
                    Hash(LastBlock(c)), 1, transactions))

BadLink(c, transactions) ==
    LET link == (Hash(LastBlock(c)) + 1) % DigestSpace
    IN  Append(c, Block(NonceSearch(0, link, transactions), link, 1, transactions))

BadProof(c, transactions) ==
    LET link == Hash(LastBlock(c))
        nonce == CHOOSE n \in Digests :
                    ~ValidProof(n, link, transactions, MINING_DIFFICULTY)
    IN  Append(c, Block(nonce, link, 1, transactions))

RewardB == <<Transaction(MINING_SENDER, "B", MINING_REWARD)>>

RECURSIVE PeerChainsOfLen(_)
PeerChainsOfLen(n) ==
    IF n = 1 THEN { <<Block(0, Hash(ZeroBlock), 1, <<>>)>> }
    ELSE UNION { {Mined(c, txs) : txs \in PeerTxLists}
                   \cup {BadLink(c, RewardB), BadProof(c, RewardB)}
                 : c \in PeerChainsOfLen(n - 1) }

PeerChains == UNION { PeerChainsOfLen(n) : n \in 1 .. MaxPeerLen }

Responses ==
    { Response(k, <<>>) : k \in {"error", "status", "garbage", "shorthash"} }
        \cup { Response("ok", c) : c \in PeerChains }

\* Submissions: any sender, the reserved one included, any recipient, any
\* amount, any key, and a signature by any key over the transaction itself or
\* over one of another amount.
Senders == Addresses \cup {MINING_SENDER}

SubmitAny ==
    \E sender \in Senders, recipient \in Addresses, value \in 1 .. MaxValue,
       senderPublicKey \in Keys, signer \in Keys, tampered \in BOOLEAN :
        Submit(sender, recipient, value, senderPublicKey,
               Sign(signer, Transaction(sender, recipient,
                                        IF tampered THEN value + 1 ELSE value)))

\* ============================================== the node, calls interleaved
\* Mining runs on its timer; submissions, pool clears and consensus run in the
\* transport's handlers: each step of one may fall between two steps of another.
\* The neighbours answer with a failure, or with a chain they mined.
ConcResponses ==
    { Response("error", <<>>), Response("status", <<>>) }
        \cup { Response("ok", c) :
                 c \in { d \in PeerChains : LinkedAndProved(d) /\ Len(d) >= 2
                                              /\ \A i \in 2 .. Len(d) :
                                                   d[i].transactions = RewardB } }

Init == pw = PwIdle /\ vc = VcIdle /\ \E timestamp \in Timestamps : NewBlockchain(timestamp)

Next ==
    \/ Submit(MINING_SENDER, "B", 1, NoKey, NoSignature)
    \/ Submit("A", "B", 1, "A", Sign("A", Transaction("A", "B", 1)))
    \/ ClearTransactionPool
    \/ Len(chain) < MaxChain /\ MLock
    \/ MReward
    \/ MProofOfWork
    \/ \E timestamp \in Timestamps : MNewBlock(timestamp)
    \/ MAppend
    \/ MClear
    \/ MUnlock
    \/ RCBegin
    \/ \E resp \in ConcResponses : RCFetch(resp)
    \/ RCEnd

Spec == Init /\ [][Next]_vars

\* C1: in every reachable state every block after the first carries the hash
\* of the block before it as its previousHash.
C1_HashLinked ==
    \A i \in 2 .. Len(chain) : chain[i].previousHash = Hash(chain[i - 1])

\* C2: the block Mining appends, and so every block after the first of the
\* local chain, satisfies the proof-of-work predicate at MINING_DIFFICULTY.
C2_BlocksProved ==
    \A i \in 2 .. Len(chain) :
        ValidProof(chain[i].nonce, chain[i].previousHash, chain[i].transactions,
                   MINING_DIFFICULTY)

\* C6: a call of ResolveConflicts that replaces the local chain puts a strictly
\* longer chain that ValidChain accepts in the place of the chain the node
\* holds, and a call that returns false leaves the chain as it is.
C6_AdoptsOnlyLongerValid ==
    last.op = "ResolveConflicts" =>
        /\ last.ret = "true" =>
             Len(chain) > Len(last.chainPre) /\ ValidChain(chain)
        /\ last.ret = "false" => chain = last.chainPre

\* C14: outside consensus the chain is append-only: a step that is not a step
\* of ResolveConflicts leaves the chain as it is, or is Mining's append, which
\* adds one block and leaves every block already there unchanged.
C14_AppendOnlyOutsideConsensus ==
    [][ \/ chain' = chain
        \/ rc' # rc
        \/ /\ m.pc = "append" /\ m'.pc = "clear"
           /\ Len(chain') = Len(chain) + 1
           /\ SubSeq(chain', 1, Len(chain)) = chain ]_vars

\* C15: while Mining holds the lock the only step that changes the chain is
\* Mining's own append, and no pass of ResolveConflicts is under way between
\* Mining's reading of the last block and its append.
C15_ChainMutatorsExclusive ==
    /\ [][ (mux /\ chain' # chain) => (m.pc = "append" /\ m'.pc = "clear") ]_vars
    /\ [](~(m.pc = "append" /\ rc.pc = "scan"))

\* C18: no step of ResolveConflicts changes the pool, whatever the call returns.
C18_ConsensusKeepsThePool ==
    [][ rc' # rc => pool' = pool ]_vars

\* A call that replaced the chain has returned and the pool holds a transaction.
C18_Witness ==
    /\ last.op = "ResolveConflicts" /\ last.ret = "true"
    /\ Len(pool) >= 1

\* ============================== mining and consensus interleaved, three blocks
NextGrowth ==
    \/ Len(chain) < MaxGrowth /\ MLock
    \/ MReward
    \/ MProofOfWork
    \/ \E timestamp \in Timestamps : MNewBlock(timestamp)
    \/ MAppend
    \/ MClear
    \/ MUnlock
    \/ RCBegin
    \/ \E resp \in ConcResponses : RCFetch(resp)
    \/ RCEnd

SpecGrowth == Init /\ [][NextGrowth]_vars

\* C20: the length of the local chain never decreases, whatever the
\* interleaving of Mining and ResolveConflicts (so it never falls below the one
\* block NewBlockchain creates).
C20_LengthNeverDecreases ==
    [][ Len(chain') >= Len(chain) ]_vars

\* ================================ consensus and mining, one call at a time
Idle == m.pc = "idle" /\ rc.pc = "idle"

NextConsensus ==
    \/ Idle /\ Len(chain) < MaxChain /\ MLock
    \/ MReward
    \/ MProofOfWork
    \/ \E timestamp \in Timestamps : MNewBlock(timestamp)
    \/ MAppend
    \/ MClear
    \/ MUnlock
    \/ Idle /\ RCBegin
    \/ Idle /\ RCBeginAgain
    \/ \E resp \in Responses : RCFetch(resp)
    \/ RCEnd

SpecConsensus == Init /\ [][NextConsensus]_vars

\* The neighbours of a pass whose answer is a valid chain, as the claims mean it.
ValidAnswers(seen) ==
    { i \in 1 .. Len(seen) :
        seen[i].kind = "ok" /\ Len(seen[i].chain) >= 1
          /\ LinkedAndProved(seen[i].chain) }

\* The first neighbour, in the order of the list, among those whose valid chain
\* is the longest.
FirstLongest(seen) ==
    CHOOSE i \in ValidAnswers(seen) :
        \A j \in ValidAnswers(seen) :
            /\ Len(seen[j].chain) <= Len(seen[i].chain)
            /\ j < i => Len(seen[j].chain) < Len(seen[i].chain)

\* C7: a call of ResolveConflicts in which every neighbour was reached returns
\* true exactly when some neighbour's chain is valid and strictly longer than
\* the local chain; the local chain is then the first, in neighbour order, of
\* the longest valid chains of the neighbours, and otherwise it is unchanged.
C7_LongestValidChainRule ==
    last.op = "ResolveConflicts" /\ last.ret # "panic" =>
        /\ last.ret = "true" <=>
             \E i \in ValidAnswers(last.seen) :
                 Len(last.seen[i].chain) > Len(last.chain0)
        /\ last.ret = "true" => chain = last.seen[FirstLongest(last.seen)].chain
        /\ last.ret = "false" => chain = last.chain0

\* A node with two blocks saw two different valid chains of three blocks and
\* holds the first neighbour's.
C7_Witness ==
    /\ last.op = "ResolveConflicts" /\ last.ret = "true"
    /\ Len(last.chain0) = 2 /\ Len(last.seen) = NumNeighbours
    /\ \A i \in {1, 2} : i \in ValidAnswers(last.seen) /\ Len(last.seen[i].chain) = 3
    /\ last.seen[1].chain # last.seen[2].chain
    /\ chain = last.seen[1].chain

\* C8: a call of ResolveConflicts made right after another that returned, the
\* neighbours answering as before, returns false and leaves the local chain as
\* the first call left it.
C8_SecondCallIsIdle ==
    last.op = "ResolveConflicts" /\ last.again /\ last.chainPre = last.chain0 =>
        last.ret = "false" /\ chain = last.chain0

\* The first call replaced the chain, the second returned false.
C8_Witness ==
    /\ last.op = "ResolveConflicts" /\ last.again
    /\ last.first = "true" /\ last.ret = "false"
    /\ chain = last.seen[FirstLongest(last.seen)].chain

\* C9: a neighbour whose fetch fails contributes nothing and does not abort the
\* pass: every neighbour of the list is examined and the call returns a result.
C9_FailedFetchIsSkipped ==
    last.op = "ResolveConflicts" =>
        last.ret \in {"true", "false"} /\ Len(last.seen) = NumNeighbours

\* ================================ admission and mining, one call at a time
NextAdmission ==
    \/ Idle /\ SubmitAny
    \/ Idle /\ ClearTransactionPool
    \/ Idle /\ Len(chain) < MaxLedger /\ MLock
    \/ MReward
    \/ MProofOfWork
    \/ \E timestamp \in Timestamps : MNewBlock(timestamp)
    \/ MAppend
    \/ MClear
    \/ MUnlock

SpecAdmission == Init /\ [][NextAdmission]_vars

\* The committed balance as the claims mean it: what the transactions of the
\* chain's blocks credit to the address less what they debit from it.
RECURSIVE Flatten(_)
Flatten(c) ==
    IF c = <<>> THEN <<>>
    ELSE Flatten(SubSeq(c, 1, Len(c) - 1)) \o c[Len(c)].transactions

RECURSIVE SumValues(_, _)
SumValues(txs, S) ==
    IF S = {} THEN 0
    ELSE LET i == CHOOSE j \in S : TRUE
         IN  txs[i].value + SumValues(txs, S \ {i})

Balance(c, a) ==
    LET txs == Flatten(c)
    IN  SumValues(txs, {i \in 1 .. Len(txs) : txs[i].recipient = a})
          - SumValues(txs, {i \in 1 .. Len(txs) : txs[i].sender = a})

\* C10: for a sender other than the mining-reward identity AddTransaction
\* returns false and leaves pool and chain as they were when the signature
\* does not verify (the check made first) or when it verifies and the sender's
\* committed balance is below the amount; otherwise it returns true and has
\* appended exactly that transaction at the end of the pool.
C10_AdmissionChecks ==
    last.op = "AddTransaction" /\ last.t.sender # MINING_SENDER =>
        /\ chain = last.chain0
        /\ IF ~last.verified
           THEN /\ ~last.ok /\ pool = last.pool0
                /\ last.log = "ERROR: Verify Transaction"
           ELSE IF Balance(last.chain0, last.t.sender) < last.t.value
           THEN /\ ~last.ok /\ pool = last.pool0
                /\ last.log = "ERROR: Insufficient balance"
           ELSE last.ok /\ pool = Append(last.pool0, last.t)

\* A verified transfer within the sender's balance joined a pool that already
\* held a transaction.
C10_Witness ==
    /\ last.op = "AddTransaction" /\ last.t.sender # MINING_SENDER
    /\ last.ok /\ last.verified /\ Len(last.pool0) >= 1
    /\ pool = Append(last.pool0, last.t)

\* C17: a Mining call that nothing interferes with returns true, adds exactly
\* one block, whose previousHash is the hash of the former last block and
\* whose transactions are the former pool in order followed by the reward
\* transaction to the node's own address, and leaves the pool empty.
C17_MiningAlone ==
    last.op = "Mining" =>
        /\ last.ok
        /\ Len(chain) = Len(last.chain0) + 1
        /\ SubSeq(chain, 1, Len(last.chain0)) = last.chain0
        /\ chain[Len(chain)].previousHash = Hash(last.chain0[Len(last.chain0)])
        /\ chain[Len(chain)].transactions =
              Append(last.pool0,
                     Transaction(MINING_SENDER, BlockChainAddress, MINING_REWARD))
        /\ pool = <<>>

\* Mining found two transactions in the pool and a chain of two blocks.
C17_Witness ==
    /\ last.op = "Mining" /\ last.ok
    /\ Len(last.pool0) = 2 /\ Len(last.chain0) = 2
    /\ Len(chain[3].transactions) = 3
    /\ chain[3].previousHash # chain[2].previousHash

\* C11: every transaction that CreateTransaction admits into the pool has
\* passed the signature verification and the balance check, whatever sender
\* the request names, the mining-reward identity included.
C11_NetworkPathIsChecked ==
    last.op = "AddTransaction" /\ last.ok =>
        /\ last.verified
        /\ Balance(last.chain0, last.t.sender) >= last.t.value

\* ======================== submissions and mining interleaved, nothing else
\* Transfers between the two addresses, each signed by its sender, arrive while
\* Mining runs on its timer; no pool clear from outside, no consensus.
NextLedger ==
    \/ \E sender \in Addresses :
           \E recipient \in Addresses \ {sender} :
               Submit(sender, recipient, 1, sender,
                      Sign(sender, Transaction(sender, recipient, 1)))
    \/ Len(chain) < MaxSpend /\ MLock
    \/ MReward
    \/ MProofOfWork
    \/ \E timestamp \in Timestamps : MNewBlock(timestamp)
    \/ MAppend
    \/ MClear
    \/ MUnlock

SpecLedger == Init /\ [][NextLedger]_vars

\* How often a transaction occurs in a list.
Count(txs, t) == Cardinality({i \in 1 .. Len(txs) : txs[i] = t})
Transfers == { Transaction(sender, recipient, 1) :
                 sender \in Addresses \cup {MINING_SENDER}, recipient \in Addresses }

\* C16: no admitted transaction is lost or counted twice across the creation
\* of a block: a step that takes a transaction out of the pool leaves it in a
\* block of the chain, and a step that changes the chain adds one block, which
\* holds pending transactions only, none more often than it is pending.
C16_NoSubmissionLostOrDoubled ==
    [][ \A t \in Transfers :
          /\ Count(pool', t) < Count(pool, t) =>
                Count(Flatten(chain'), t) >= Count(pool, t)
          /\ chain' # chain =>
                /\ Len(chain') = Len(chain) + 1
                /\ SubSeq(chain', 1, Len(chain)) = chain
                /\ Count(chain'[Len(chain')].transactions, t) <= Count(pool, t) ]_vars

\* C19: the committed balance of every address other than the mining-reward
\* sender is at least 0 in every state reached through submissions and Mining.
C19_NoOverdraft ==
    \A a \in Addresses : CalculateTotalAmount(chain, a) >= 0

\* ===================================== the ledger's methods, called directly
\* AddTransaction with the reserved sender (unchecked, as in the first program)
\* or a signed transfer, CreateBlock on the hash of the last block, and balance
\* queries, one call at a time.  An amount is 1 or the least value at which
\* float32 no longer holds every integer.
BigValue == Pow(2, MantissaBits)
NoHistory == "C"

NextDirect ==
    \/ \E recipient \in Addresses, value \in {1, BigValue} :
           /\ recipient = "B" => value = 1
           /\ Submit(MINING_SENDER, recipient, value, NoKey, NoSignature)
    \/ Submit("A", "B", 1, "A", Sign("A", Transaction("A", "B", 1)))
    \/ \E nonce \in {0, 4}, timestamp \in Timestamps :
           /\ Len(chain) < MaxDirect
           /\ CreateBlockCall(nonce, Hash(LastBlock(chain)), timestamp)
    \/ \E blockchainAddress \in Addresses \cup {NoHistory} :
           AmountCall(blockchainAddress)

SpecDirect == Init /\ [][NextDirect]_vars

\* What a list of transactions credits to an address and debits from it.
Credits(txs, a) == SumValues(txs, {i \in 1 .. Len(txs) : txs[i].recipient = a})
Debits(txs, a) == SumValues(txs, {i \in 1 .. Len(txs) : txs[i].sender = a})

\* C12: CalculateTotalAmount(a) is the sum of the amounts the committed blocks
\* credit to a less the sum of those they debit from a (0 for an address with
\* no history), whatever the pool holds, and appending a block that credits a
\* by v and does not debit it raises the result by exactly v.
C12_BalanceIsCreditsLessDebits ==
    /\ last.op = "CalculateTotalAmount" =>
          /\ last.ret = Balance(chain, last.blockchainAddress)
          /\ chain = last.chain0 /\ pool = last.pool0
    /\ last.op = "CreateBlock" =>
          \A a \in Addresses \cup {NoHistory} :
              Debits(last.pool0, a) = 0 =>
                  CalculateTotalAmount(chain, a) =
                      CalculateTotalAmount(last.chain0, a) + Credits(last.pool0, a)

\* C13: CreateBlock(nonce, previousHash) extends the chain by exactly one block,
\* which carries the given nonce and previousHash and the pool's transactions
\* in the order they were added, and leaves the pool empty; the blocks that
\* were there stay as they were.
C13_CreateBlockTakesThePool ==
    last.op = "CreateBlock" =>
        /\ Len(chain) = Len(last.chain0) + 1
        /\ SubSeq(chain, 1, Len(last.chain0)) = last.chain0
        /\ LastBlock(chain).nonce = last.nonce
        /\ LastBlock(chain).previousHash = last.previousHash
        /\ LastBlock(chain).transactions = last.pool0
        /\ pool = <<>>

\* From a new ledger: one transaction and a block, then two different
\* transactions and a block, give three blocks and an empty pool.
C13_Witness ==
    /\ last.op = "CreateBlock" /\ Len(chain) = 3 /\ pool = <<>>
    /\ chain[1].transactions = <<>>
    /\ Len(chain[2].transactions) = 1
    /\ Len(chain[3].transactions) = 2
    /\ chain[3].transactions[1] # chain[3].transactions[2]
    /\ chain[3].transactions = last.pool0

\* ================================================ the nonce search on its own
\* FindNonce(previousHash, transactions, difficulty): the loop of ProofOfWork
\* with the difficulty handed to ValidProof as a parameter, one iteration a step.
PwTxLists ==
    { <<>>,
      <<Transaction(MINING_SENDER, "A", MINING_REWARD)>>,
      <<Transaction("A", "B", 1), Transaction(MINING_SENDER, "A", MINING_REWARD)>> }

PwStart(previousHash, transactions, difficulty) ==
    /\ pw.pc = "idle"
    /\ pw' = [pc |-> "search", previousHash |-> previousHash,
              transactions |-> transactions, difficulty |-> difficulty,
              nonce |-> 0]
    /\ UNCHANGED <<vc, nodeVars>>

\* One evaluation of the loop condition that fails: nonce += 1.  The digest of
\* the trial block is periodic in the nonce with period DigestSpace, so the
\* model stops counting once every digest has been tried.
PwNext ==
    /\ pw.pc = "search"
    /\ ~ValidProof(pw.nonce, pw.previousHash, pw.transactions, pw.difficulty)
    /\ pw.nonce < DigestSpace
    /\ pw' = [pw EXCEPT !.nonce = @ + 1]
    /\ UNCHANGED <<vc, nodeVars>>

\* The loop condition holds: return nonce.
PwFound ==
    /\ pw.pc = "search"
    /\ ValidProof(pw.nonce, pw.previousHash, pw.transactions, pw.difficulty)
    /\ pw' = [pw EXCEPT !.pc = "done"]
    /\ UNCHANGED <<vc, nodeVars>>

PwReturn ==
    /\ pw.pc = "done"
    /\ pw' = PwIdle
    /\ UNCHANGED <<vc, nodeVars>>

InitPoW == pw = PwIdle /\ vc = VcIdle /\ NewBlockchain(1)

NextPoW ==
    \/ \E previousHash \in Digests, transactions \in PwTxLists,
          difficulty \in 0 .. MaxDifficulty :
            PwStart(previousHash, transactions, difficulty)
    \/ PwNext
    \/ PwFound
    \/ PwReturn

SpecPoW == InitPoW /\ [][NextPoW]_vars

\* C3: at every difficulty d >= 0 the nonce search ends, and ends on a nonce
\* that ValidProof accepts at d: while it runs some nonce of the next full
\* period of digests is accepted, and the nonce it returns is accepted.
C3_SearchFindsValidNonce ==
    /\ pw.pc = "search" =>
         \E n \in pw.nonce .. (pw.nonce + DigestSpace - 1) :
             ValidProof(n, pw.previousHash, pw.transactions, pw.difficulty)
    /\ pw.pc = "done" =>
         ValidProof(pw.nonce, pw.previousHash, pw.transactions, pw.difficulty)

\* ================================================= ValidChain on its own
VcTimestamps == {1, 2}
VcTxLists ==
    { <<Transaction(MINING_SENDER, "A", MINING_REWARD)>>,
      <<Transaction(MINING_SENDER, "B", MINING_REWARD)>> }
VcGenesisHashes == {Hash(ZeroBlock), (Hash(ZeroBlock) + 1) % DigestSpace}

VcGenesis(previousHash, timestamp) ==
    /\ vc.ret = "none" /\ vc.base = <<>> /\ vc.chain = <<>>
    /\ vc' = [vc EXCEPT !.chain = <<Block(0, previousHash, timestamp, <<>>)>>]
    /\ UNCHANGED <<pw, nodeVars>>

\* The next block of the input: mined on the last one ("good"), mined on a
\* wrong previousHash ("badlink"), or linked but with a nonce that fails the
\* predicate ("badproof").
VcAppend(kind, timestamp, transactions) ==
    /\ vc.ret = "none" /\ vc.base = <<>>
    /\ Len(vc.chain) >= 1 /\ Len(vc.chain) < MaxVCLen
    /\ LET tip == vc.chain[Len(vc.chain)]
           link == IF kind = "badlink" THEN (Hash(tip) + 1) % DigestSpace
                   ELSE Hash(tip)
           nonce == IF kind = "badproof"
                    THEN CHOOSE n \in Digests :
                           ~ValidProof(n, link, transactions, MINING_DIFFICULTY)
                    ELSE NonceSearch(0, link, transactions)
       IN  vc' = [vc EXCEPT !.chain =
                     Append(@, Block(nonce, link, timestamp, transactions))]
    /\ UNCHANGED <<pw, nodeVars>>

\* One block's previousHash of a valid chain is overwritten by another digest.
VcCorrupt(i, h) ==
    /\ vc.ret = "none" /\ vc.base = <<>>
    /\ Len(vc.chain) >= 1 /\ LinkedAndProved(vc.chain)
    /\ i \in 1 .. Len(vc.chain)
    /\ h # vc.chain[i].previousHash
    /\ vc' = [vc EXCEPT !.base = vc.chain, !.chain[i].previousHash = h]
    /\ UNCHANGED <<pw, nodeVars>>

VcCall ==
    /\ vc.ret = "none"
    /\ vc' = [vc EXCEPT !.ret = IF ValidChainPanics(vc.chain) THEN "panic"
                                ELSE IF ValidChain(vc.chain) THEN "true"
                                ELSE "false"]
    /\ UNCHANGED <<pw, nodeVars>>

VcReturn ==
    /\ vc.ret # "none"
    /\ vc' = VcIdle
    /\ UNCHANGED <<pw, nodeVars>>

InitVC == pw = PwIdle /\ vc = VcIdle /\ NewBlockchain(1)

NextVC ==
    \/ \E previousHash \in VcGenesisHashes, timestamp \in VcTimestamps :
          VcGenesis(previousHash, timestamp)
    \/ \E kind \in {"good", "badlink", "badproof"}, timestamp \in VcTimestamps,
          transactions \in VcTxLists :
            VcAppend(kind, timestamp, transactions)
    \/ \E i \in 1 .. MaxVCLen, h \in Digests : VcCorrupt(i, h)
    \/ VcCall
    \/ VcReturn

SpecVC == InitVC /\ [][NextVC]_vars

\* C4: ValidChain accepts every chain whose later blocks are linked and
\* proved, and rejects every chain that is a valid chain with one block's
\* previousHash overwritten, whatever the block and whatever the length, the
\* first block and a chain of a single block included.
C4_RejectsEveryCorruption ==
    vc.ret # "none" =>
        /\ LinkedAndProved(vc.chain) => vc.ret = "true"
        /\ vc.base # <<>> => vc.ret = "false"

\* C5: ValidChain returns true, without failing, on a chain of no block and on
\* a chain of exactly one block.
C5_TrivialChainsAreValid ==
    vc.ret # "none" /\ Len(vc.chain) <= 1 => vc.ret = "true"

====
